---- MODULE Spec2Model ----
(***************************************************************************)
(* A model of mirage/utils/file_utils.py: the cloud-enabled file facade    *)
(* (open, isfile, isdir, exists, abspath, glob), the read helpers on top   *)
(* of open, the lazily constructed S3 client in the module global          *)
(* _S3_CLIENT, and the glob translator.                                    *)
(*                                                                         *)
(* Strings are sequences of one-character strings.  Every facade call of   *)
(* a thread is cut into steps at its reads and writes of the shared state  *)
(* (the global _S3_CLIENT and the atexit registry): a thread switch can    *)
(* happen between any two of them.                                         *)
(***************************************************************************)
EXTENDS Integers, Sequences, FiniteSets, TLC

VARIABLES
    S3_CLIENT,      \* the module global: 0 is None, h > 0 is a handle of the factory,
                    \* MockHandle a handle that a test has put there
    constructed,    \* number of handles ConcurrentS3Client() has returned
    factoryCalls,   \* number of times the import + constructor was attempted
    atexit,         \* handles whose close is registered, in registration order
    closed,         \* handle -> number of times its close has run
    used,           \* handles that have received a collaborator call
    phase,          \* "running", "exiting" (exit hooks run), "exited"
    store,          \* the keys of bucket b in listing order
    locale,         \* locale.getpreferredencoding(False) of the process
    th              \* thread -> its frame (the call it is in and its locals)

vars == <<S3_CLIENT, constructed, factoryCalls, atexit, closed, used, phase, store, locale, th>>

-----------------------------------------------------------------------------
(* Bounds *)

\* Facade calls one thread makes.
MaxOps == 2

\* Threads of the concurrent specification.
NThreads == 2

\* Length of the key patterns of the glob specification.
MaxPatLen == 4

-----------------------------------------------------------------------------
(* Strings *)

S3_PREFIX == <<"s", "3", ":", "/", "/">>

StartsWith(s, p) == Len(s) >= Len(p) /\ SubSeq(s, 1, Len(p)) = p

EndsWith(s, p) == Len(s) >= Len(p) /\ SubSeq(s, Len(s) - Len(p) + 1, Len(s)) = p

Drop(s, n) == SubSeq(s, n + 1, Len(s))

\* str.find(c, from): 1-based position of the first c at or after from, 0 if none
RECURSIVE Find(_, _, _)
Find(s, c, from) ==
    IF from > Len(s) THEN 0
    ELSE IF s[from] = c THEN from
    ELSE Find(s, c, from + 1)

\* str.replace(old, ""): every non-overlapping occurrence removed, left to right
RECURSIVE RemoveAll(_, _)
RemoveAll(s, old) ==
    IF s = <<>> THEN <<>>
    ELSE IF StartsWith(s, old) THEN RemoveAll(Drop(s, Len(old)), old)
    ELSE <<Head(s)>> \o RemoveAll(Tail(s), old)

\* str.split(sep, 1): the list of at most two parts
Split1(s, sep) ==
    LET p == Find(s, sep, 1)
    IN  IF p = 0 THEN <<s>> ELSE <<SubSeq(s, 1, p - 1), Drop(s, p)>>

-----------------------------------------------------------------------------
(* os.path.expandvars (posixpath) against the process environment *)

\* \w of the variable-name pattern, over the characters the model uses
WordChars == {"a", "b", "c", "d", "k", "s", "x", "y", "3", "K", "V", "W", "L"}

\* The process environment: V is a remote directory, W a remote URI whose
\* text holds a reference to K, L a local directory.
Environ ==
    (<<"V">> :> <<"s", "3", ":", "/", "/", "b", "/", "d">>)
    @@ (<<"W">> :> <<"s", "3", ":", "/", "/", "b", "/", "$", "K">>)
    @@ (<<"K">> :> <<"a">>)
    @@ (<<"L">> :> <<"d">>)

\* end (exclusive) of the longest run of \w starting at position i
RECURSIVE WordEnd(_, _)
WordEnd(s, i) == IF i <= Len(s) /\ s[i] \in WordChars THEN WordEnd(s, i + 1) ELSE i

\* The match of \$(\w+|\{[^}]*\}) that search(path, i) finds: <<start, end, name>>
\* with end exclusive, or <<>> when there is none.
RECURSIVE SearchVar(_, _)
SearchVar(path, i) ==
    IF i > Len(path) THEN <<>>
    ELSE IF path[i] # "$" THEN SearchVar(path, i + 1)
    ELSE IF WordEnd(path, i + 1) > i + 1
         THEN <<i, WordEnd(path, i + 1), SubSeq(path, i + 1, WordEnd(path, i + 1) - 1)>>
    ELSE IF i + 1 <= Len(path) /\ path[i + 1] = "{" /\ Find(path, "}", i + 2) # 0
         THEN <<i, Find(path, "}", i + 2) + 1, SubSeq(path, i + 2, Find(path, "}", i + 2) - 1)>>
    ELSE SearchVar(path, i + 1)

\* The loop of expandvars: a value that is substituted is not scanned again,
\* an unset name is left as it is.
RECURSIVE ExpandFrom(_, _)
ExpandFrom(path, i) ==
    LET m == SearchVar(path, i)
    IN  IF m = <<>> THEN path
        ELSE IF m[3] \in DOMAIN Environ
             THEN ExpandFrom(SubSeq(path, 1, m[1] - 1) \o Environ[m[3]] \o Drop(path, m[2] - 1),
                             m[1] + Len(Environ[m[3]]))
             ELSE ExpandFrom(path, m[2])

\* A facade that leaves environment references as they are
expandvars_Unexpanded(path) == path

expandvars(path) == ExpandFrom(path, 1)

-----------------------------------------------------------------------------
(* The URI resolver *)

\* A test that takes the scheme in either case
_is_s3_uri_AnyCase(uri) == StartsWith(uri, S3_PREFIX) \/ StartsWith(uri, <<"S", "3", ":", "/", "/">>)

_is_s3_uri(uri) == StartsWith(uri, S3_PREFIX)

\* uri.replace("s3://", "").split("/", 1): a list of one or two strings
_parse_s3_uri(uri) == Split1(RemoveAll(uri, S3_PREFIX), "/")

-----------------------------------------------------------------------------
(* The glob translator *)

\* Python's pat[i] and pat[i:j] with 0-based indices
At(pat, i) == pat[i + 1]

Slice(pat, i, j) == SubSeq(pat, i + 1, j)

\* whether the two-character string "--" occurs in s
HasDoubleHyphen(s) == \E p \in 1..(Len(s) - 1) : s[p] = "-" /\ s[p + 1] = "-"

\* s.replace('\\', r'\\')
RECURSIVE EscapeBackslash(_)
EscapeBackslash(s) ==
    IF s = <<>> THEN <<>>
    ELSE (IF Head(s) = "\\" THEN <<"\\", "\\">> ELSE <<Head(s)>>) \o EscapeBackslash(Tail(s))

\* s.replace('-', r'\-')
RECURSIVE EscapeHyphen(_)
EscapeHyphen(s) ==
    IF s = <<>> THEN <<>>
    ELSE (IF Head(s) = "-" THEN <<"\\", "-">> ELSE <<Head(s)>>) \o EscapeHyphen(Tail(s))

\* re.sub(r'([&~|])', r'\\\1', stuff)
RECURSIVE EscapeSetOps(_)
EscapeSetOps(s) ==
    IF s = <<>> THEN <<>>
    ELSE (IF Head(s) \in {"&", "~", "|"} THEN <<"\\", Head(s)>> ELSE <<Head(s)>>)
         \o EscapeSetOps(Tail(s))

\* re.escape(c) of CPython 3.7: the characters with a special meaning get a backslash
ReSpecialChars ==
    {"(", ")", "[", "]", "{", "}", "?", "*", "+", "-", "|", "^", "$", "\\", ".", "&", "~", "#", " "}

re_escape(c) == IF c \in ReSpecialChars THEN <<"\\", c>> ELSE <<c>>

\* while j < n and pat[j] != ']': j = j+1
RECURSIVE SkipToBracket(_, _)
SkipToBracket(pat, j) ==
    IF j < Len(pat) /\ At(pat, j) # "]" THEN SkipToBracket(pat, j + 1) ELSE j

\* pat.find('-', k, j): 0-based index of the first '-' in pat[k:j], -1 if none
RECURSIVE FindHyphen(_, _, _)
FindHyphen(pat, k, j) ==
    IF k >= j \/ k >= Len(pat) THEN -1
    ELSE IF At(pat, k) = "-" THEN k
    ELSE FindHyphen(pat, k + 1, j)

\* '-'.join(chunks)
RECURSIVE JoinHyphen(_)
JoinHyphen(chunks) ==
    IF chunks = <<>> THEN <<>>
    ELSE IF Len(chunks) = 1 THEN chunks[1]
    ELSE chunks[1] \o <<"-">> \o JoinHyphen(Tail(chunks))

\* The while True loop that cuts pat[i:j] at its range hyphens; the list of
\* chunks with the last one, pat[i:j] for the final i, appended.
RECURSIVE RangeChunks(_, _, _, _, _)
RangeChunks(pat, i, k, j, chunks) ==
    LET k2 == FindHyphen(pat, k, j)
    IN  IF k2 < 0 THEN Append(chunks, Slice(pat, i, j))
        ELSE RangeChunks(pat, k2 + 1, k2 + 3, j, Append(chunks, Slice(pat, i, k2)))

\* The stuff between the brackets of pat[i-1] = '[' ... pat[j] = ']', as it is
\* put between the brackets of the regular expression
BracketStuff(pat, i, j) ==
    LET raw == Slice(pat, i, j)
        s1 == IF ~HasDoubleHyphen(raw)
              THEN EscapeBackslash(raw)
              ELSE LET chunks == RangeChunks(pat, i, IF At(pat, i) = "!" THEN i + 2 ELSE i + 1,
                                             j, <<>>)
                   IN  JoinHyphen([n \in 1..Len(chunks) |->
                                      EscapeHyphen(EscapeBackslash(chunks[n]))])
        s2 == EscapeSetOps(s1)
    IN  IF s2[1] = "!" THEN <<"^">> \o Tail(s2)
        ELSE IF s2[1] \in {"^", "["} THEN <<"\\">> \o s2
        ELSE s2

\* The end j of the bracket expression that opens before position i
BracketEnd(pat, i) ==
    LET j1 == IF i < Len(pat) /\ At(pat, i) = "!" THEN i + 1 ELSE i
        j2 == IF j1 < Len(pat) /\ At(pat, j1) = "]" THEN j1 + 1 ELSE j1
    IN  SkipToBracket(pat, j2)

\* A * that matches every character, "/" too
StarRe_AnyChars == <<".", "*">>

\* What * becomes: any run of characters other than the path separator
StarRe == <<"[", "^", "/", "]", "*">>

\* What ? becomes: one character other than the path separator
QuestionRe == <<"[", "^", "/", "]">>

\* An opening bracket that is left as it is
UnclosedBracketRe_Bare == <<"[">>

\* What a [ without its ] becomes: the character itself, escaped
UnclosedBracketRe == <<"\\", "[">>

\* The while i < n loop: res for the rest of pat from index i
RECURSIVE TranslateFrom(_, _, _)
TranslateFrom(pat, i, res) ==
    IF i >= Len(pat) THEN res
    ELSE LET c == At(pat, i)
         IN  IF c = "*" THEN TranslateFrom(pat, i + 1, res \o StarRe)
             ELSE IF c = "?" THEN TranslateFrom(pat, i + 1, res \o QuestionRe)
             ELSE IF c = "["
                  THEN LET j == BracketEnd(pat, i + 1)
                       IN  IF j >= Len(pat)
                           THEN TranslateFrom(pat, i + 1, res \o UnclosedBracketRe)
                           ELSE TranslateFrom(pat, j + 1,
                                              res \o <<"[">> \o BracketStuff(pat, i + 1, j) \o <<"]">>)
             ELSE TranslateFrom(pat, i + 1, res \o re_escape(c))

\* The two ends of r'(?s:%s)\Z'
GlobHead == <<"(", "?", "s", ":">>

\* An expression without its \Z
GlobTail_Unanchored == <<")">>

GlobTail == <<")", "\\", "Z">>

\* r'(?s:%s)\Z' % res
_glob_to_re(pat) == GlobHead \o TranslateFrom(pat, 0, <<>>) \o GlobTail

-----------------------------------------------------------------------------
(* re.compile(...).match on the regular expressions the translator writes *)

\* ord(c) of the characters of the model
Ord ==
    ("!" :> 33) @@ ("$" :> 36) @@ ("&" :> 38) @@ ("(" :> 40) @@ (")" :> 41)
    @@ ("*" :> 42) @@ ("-" :> 45) @@ ("." :> 46) @@ ("/" :> 47) @@ ("3" :> 51)
    @@ (":" :> 58) @@ ("?" :> 63) @@ ("K" :> 75) @@ ("L" :> 76) @@ ("V" :> 86)
    @@ ("W" :> 87) @@ ("Z" :> 90) @@ ("[" :> 91) @@ ("\\" :> 92) @@ ("]" :> 93)
    @@ ("^" :> 94) @@ ("a" :> 97) @@ ("b" :> 98) @@ ("c" :> 99) @@ ("d" :> 100)
    @@ ("k" :> 107) @@ ("s" :> 115) @@ ("x" :> 120) @@ ("y" :> 121) @@ ("z" :> 122)
    @@ ("{" :> 123) @@ ("|" :> 124) @@ ("}" :> 125) @@ ("~" :> 126)

\* A parsed character set: negated or not, its literals, its ranges
InClass(c, cls) ==
    cls.neg # (c \in cls.lits \/ \E r \in cls.ranges : Ord[r[1]] <= Ord[c] /\ Ord[c] <= Ord[r[2]])

\* sre_parse's loop over the inside of [...] from position i (after [ or [^):
\* a ] ends the set unless it comes first, \c is the literal c, c1-c2 is a range
\* and an error when c2 sorts before c1, a - before the closing ] is a literal.
RECURSIVE ParseSet(_, _, _, _, _)
ParseSet(r, i, lits, ranges, empty) ==
    IF i > Len(r) THEN [ok |-> FALSE]
    ELSE IF r[i] = "]" /\ ~empty
         THEN [ok |-> TRUE, lits |-> lits, ranges |-> ranges, next |-> i + 1]
    ELSE IF r[i] = "\\" /\ i + 1 > Len(r) THEN [ok |-> FALSE]
    ELSE LET code1 == IF r[i] = "\\" THEN r[i + 1] ELSE r[i]
             i1 == IF r[i] = "\\" THEN i + 2 ELSE i + 1
         IN  IF i1 <= Len(r) /\ r[i1] = "-"
             THEN IF i1 + 1 > Len(r) THEN [ok |-> FALSE]
                  ELSE IF r[i1 + 1] = "]"
                       THEN [ok |-> TRUE, lits |-> lits \cup {code1, "-"}, ranges |-> ranges,
                             next |-> i1 + 2]
                  ELSE IF r[i1 + 1] = "\\" /\ i1 + 2 > Len(r) THEN [ok |-> FALSE]
                  ELSE LET code2 == IF r[i1 + 1] = "\\" THEN r[i1 + 2] ELSE r[i1 + 1]
                           i2 == IF r[i1 + 1] = "\\" THEN i1 + 3 ELSE i1 + 2
                       IN  IF Ord[code2] < Ord[code1] THEN [ok |-> FALSE]
                           ELSE ParseSet(r, i2, lits, ranges \cup {<<code1, code2>>}, FALSE)
             ELSE ParseSet(r, i1, lits \cup {code1}, ranges, FALSE)

\* The items of the expression from position i up to a ) or the end:
\* a set, an escaped or plain literal (a set of one), a dot (under the s flag the
\* complement of the empty set), each with an optional *, and \Z, the end of
\* the string.
RECURSIVE ParseItems(_, _, _)
ParseItems(r, i, items) ==
    IF i > Len(r) \/ r[i] = ")" THEN [ok |-> TRUE, items |-> items, next |-> i]
    ELSE IF r[i] = "\\" /\ i + 1 > Len(r) THEN [ok |-> FALSE]
    ELSE IF r[i] = "\\" /\ r[i + 1] = "Z"
         THEN ParseItems(r, i + 2, Append(items, [kind |-> "eos"]))
    ELSE LET neg == r[i] = "." \/ (r[i] = "[" /\ i + 1 <= Len(r) /\ r[i + 1] = "^")
             set == IF r[i] = "["
                    THEN ParseSet(r, IF neg THEN i + 2 ELSE i + 1, {}, {}, TRUE)
                    ELSE IF r[i] = "\\"
                         THEN [ok |-> TRUE, lits |-> {r[i + 1]}, ranges |-> {}, next |-> i + 2]
                    ELSE IF r[i] = "."
                         THEN [ok |-> TRUE, lits |-> {}, ranges |-> {}, next |-> i + 1]
                         ELSE [ok |-> TRUE, lits |-> {r[i]}, ranges |-> {}, next |-> i + 1]
         IN  IF ~set.ok THEN [ok |-> FALSE]
             ELSE LET star == set.next <= Len(r) /\ r[set.next] = "*"
                  IN  ParseItems(r, IF star THEN set.next + 1 ELSE set.next,
                                 Append(items, [kind |-> "set", neg |-> neg, lits |-> set.lits,
                                                ranges |-> set.ranges, star |-> star]))

\* re.compile: the items of (?s:...) followed by those after the group;
\* ok is FALSE where re.compile raises re.error
re_compile(r) ==
    IF StartsWith(r, <<"(", "?", "s", ":">>)
    THEN LET g == ParseItems(r, 5, <<>>)
         IN  IF ~g.ok \/ g.next > Len(r) THEN [ok |-> FALSE]
             ELSE ParseItems(r, g.next + 1, g.items)
    ELSE ParseItems(r, 1, <<>>)

\* The positions of k where a match of items[n..] can end when it starts at
\* one of the positions P (0 is before the first character)
RECURSIVE MatchEnds(_, _, _, _)
MatchEnds(items, n, k, P) ==
    IF n > Len(items) \/ P = {} THEN P
    ELSE LET it == items[n]
         IN  IF it.kind = "eos" THEN MatchEnds(items, n + 1, k, {p \in P : p = Len(k)})
             ELSE IF it.star
                  THEN MatchEnds(items, n + 1, k,
                           {q \in 0..Len(k) : \E p \in P :
                                p <= q /\ \A m \in (p + 1)..q : InClass(k[m], it)})
                  ELSE MatchEnds(items, n + 1, k,
                           {p + 1 : p \in {q \in P : q < Len(k) /\ InClass(k[q + 1], it)}})

\* matcher(k) of a compiled expression: a match that starts at the first character
re_match(compiled, k) == MatchEnds(compiled.items, 1, k, {0}) # {}

-----------------------------------------------------------------------------
(* The collaborators: the S3 client and the local filesystem *)

Range(q) == {q[n] : n \in DOMAIN q}

\* The one bucket that holds keys; every other bucket is empty
BUCKET == <<"b">>

\* client.object_exists(bucket_name, key)
object_exists(bucket, key) == bucket = BUCKET /\ key \in Range(store)

\* list(client.iterate_keys(bucket_name, key_prefix)): the keys with the prefix, in order
iterate_keys(bucket, prefix) ==
    IF bucket # BUCKET THEN <<>> ELSE SelectSeq(store, LAMBDA k : StartsWith(k, prefix))

\* client.prefix_exists(bucket_name, key_prefix)
prefix_exists(bucket, prefix) == iterate_keys(bucket, prefix) # <<>>

\* The local tree: the directory d with the file d/a in it, and the file a
LocalFiles == {<<"a">>, <<"d", "/", "a">>}

LocalDirs == {<<"d">>}

os_path_isfile(path) == path \in LocalFiles

os_path_isdir(path) == path \in LocalDirs \/ (EndsWith(path, <<"/">>) /\ SubSeq(path, 1, Len(path) - 1) \in LocalDirs)

os_path_exists(path) == os_path_isfile(path) \/ os_path_isdir(path)

\* os.getcwd()
Cwd == <<"/", "w">>

\* The part of os.path.normpath that a path with no . or .. component needs:
\* a run of "/" becomes one "/" and a "/" at the end goes
RECURSIVE CollapseSlashes(_)
CollapseSlashes(path) ==
    IF Len(path) <= 1 THEN path
    ELSE IF path[1] = "/" /\ path[2] = "/" THEN CollapseSlashes(Tail(path))
    ELSE IF Len(path) = 2 /\ path[2] = "/" THEN <<path[1]>>
    ELSE <<path[1]>> \o CollapseSlashes(Tail(path))

\* os.path.abspath of a path with no . or .. component
os_path_abspath(path) ==
    CollapseSlashes(IF StartsWith(path, <<"/">>) THEN path ELSE Cwd \o <<"/">> \o path)

-----------------------------------------------------------------------------
(* Results and frames *)

NoResult == [kind |-> "none"]

Ok(v) == [kind |-> "ok", val |-> v]

Raise(e) == [kind |-> "raise", exc |-> e]

_OPEN_MODES == {"r", "rb"}

_SYSTEM_ENCODING == "utf-8"

Threads == 1..NThreads

-----------------------------------------------------------------------------
(* Streams: what reading the object that open returns gives *)

\* The bytes of a local file or of an object, by its path or key: a line of
\* ASCII text in a, and in d/a the two bytes of an e-acute in UTF-8 and a
\* line end of two bytes
Content(name) ==
    IF name = <<"a">> THEN <<"a", "LF">>
    ELSE IF name = <<"d", "/", "a">> THEN <<"C3", "A9", "CR", "LF">>
    ELSE <<>>

\* The encodings that locale.getpreferredencoding(False) gives: of a UTF-8
\* locale and of the C locale
LocaleEncodings == {"utf-8", "ascii"}

\* The values of open's encoding argument
Encodings == {"None", "latin-1"}

\* bytes.decode(enc), character by character; <<"error">> where it raises
RECURSIVE DecodeFrom(_, _)
DecodeFrom(bytes, enc) ==
    IF bytes = <<>> THEN <<>>
    ELSE LET b == Head(bytes)
             rest == DecodeFrom(Tail(bytes), enc)
             one(c) == IF rest = <<"error">> THEN rest ELSE <<c>> \o rest
         IN  IF b \in {"a", "CR", "LF"} THEN one(b)
             ELSE IF enc = "latin-1" THEN one(IF b = "C3" THEN "A-tilde" ELSE "copyright")
             ELSE IF enc = "utf-8" /\ b = "C3" /\ Len(bytes) >= 2 /\ bytes[2] = "A9"
                  THEN LET rest2 == DecodeFrom(Tail(Tail(bytes)), enc)
                       IN  IF rest2 = <<"error">> THEN rest2 ELSE <<"e-acute">> \o rest2
             ELSE <<"error">>

Decode(bytes, enc) ==
    IF DecodeFrom(bytes, enc) = <<"error">> THEN Raise("UnicodeDecodeError")
    ELSE Ok(DecodeFrom(bytes, enc))

\* The newline=None of io.TextIOWrapper and io.open on reading: \r\n and \r
\* become \n
RECURSIVE UniversalNewlines(_)
UniversalNewlines(text) ==
    IF text = <<>> THEN <<>>
    ELSE IF Head(text) = "CR"
         THEN IF Len(text) >= 2 /\ text[2] = "LF"
              THEN <<"LF">> \o UniversalNewlines(Tail(Tail(text)))
              ELSE <<"LF">> \o UniversalNewlines(Tail(text))
    ELSE <<Head(text)>> \o UniversalNewlines(Tail(text))

\* stream.read(): the bytes of a binary stream, the decoded text with its
\* line ends translated of a text stream
ReadAll(stream) ==
    IF stream.encoding = "none" THEN Ok(Content(stream.name))
    ELSE LET d == Decode(Content(stream.name), stream.encoding)
         IN  IF d.kind = "ok" THEN Ok(UniversalNewlines(d.val)) ELSE d

\* The read helpers, and the mode each opens its uri with (lines 90, 98, 106,
\* 115, 123)
Helpers == {"read_fits", "read_asdf", "read_ascii_table", "read_hdf5", "read_yaml"}

HelperOpenMode(helper) == IF helper \in {"read_ascii_table", "read_yaml"} THEN "r" ELSE "rb"

\* The helpers that open inside a with statement (lines 106, 123)
ScopedHelpers == {"read_ascii_table", "read_yaml"}

\* A frame: file is the stream a helper got from open, stream its state
\* ("none", "open", "closed"), hmode the mode argument of read_hdf5, dec what
\* the decoder returned or raised, decoded the number of decoder calls
IdleFrame ==
    [pc |-> "idle", op |-> "none", sub |-> "none", arg |-> <<>>, uri |-> <<>>, outer |-> <<>>,
     mode |-> "r", encoding |-> "None", tmp |-> 0, calls |-> <<>>, nexp |-> 0, fs |-> 0, result |-> NoResult, n |-> 0,
     hmode |-> "r", file |-> NoResult, stream |-> "none", dec |-> NoResult, decoded |-> 0]

\* An exists that takes an error of isdir(uri) for False and goes on to isfile(uri)
Return_SwallowsIsdirError(f, res) ==
    IF f.op = "exists" /\ f.sub = "isdir" /\ (res.kind = "raise" \/ res.val = FALSE)
    THEN [f EXCEPT !.sub = "isfile", !.uri = f.outer, !.pc = "enter"]
    ELSE [f EXCEPT !.pc = "done", !.result = res]

\* A return or a raise of the function f.sub: exists, whose isdir(uri) was
\* false, goes on to isfile(uri); a helper whose open returned goes on with the
\* stream; everything else ends the call.
Return(f, res) ==
    IF f.op = "exists" /\ f.sub = "isdir" /\ res.kind = "ok" /\ res.val = FALSE
    THEN [f EXCEPT !.sub = "isfile", !.uri = f.outer, !.pc = "enter"]
    ELSE IF f.op \in Helpers /\ f.sub = "open" /\ res.kind = "ok"
    THEN [f EXCEPT !.sub = f.op, !.file = res.val, !.stream = "open",
                   !.pc = IF f.op = "read_ascii_table" THEN "read" ELSE "decode"]
    ELSE [f EXCEPT !.pc = "done", !.result = res]

-----------------------------------------------------------------------------
(* glob.glob on the local tree *)

\* The entries of the local tree in the order of a directory walk
LocalPaths == << <<"a">>, <<"d">>, <<"d", "/", "a">> >>

\* path.split("/")
RECURSIVE Components(_)
Components(path) ==
    LET p == Find(path, "/", 1)
    IN  IF p = 0 THEN <<path>> ELSE <<SubSeq(path, 1, p - 1)>> \o Components(Drop(path, p))

\* glob.has_magic
has_magic(s) == \E n \in DOMAIN s : s[n] \in {"*", "?", "["}

\* One path component against one pattern component: equal when the pattern has
\* no magic, else fnmatch, which never gives a name with a leading dot to a
\* pattern without one.  On a name without "/" fnmatch.translate and
\* _glob_to_re accept the same names.
ComponentMatches(pat, name) ==
    IF ~has_magic(pat) THEN pat = name
    ELSE /\ (name # <<>> /\ name[1] = ".") => (pat # <<>> /\ pat[1] = ".")
         /\ re_match(re_compile(_glob_to_re(pat)), name)

\* glob.glob(pat) on a tree with the entries paths: the entries whose
\* components match the pattern's, one by one
GlobOnTree(paths, pat) ==
    LET pc == Components(pat)
    IN  IF \E n \in DOMAIN pc : has_magic(pc[n]) /\ ~re_compile(_glob_to_re(pc[n])).ok
        THEN Raise("re.error")
        ELSE Ok(SelectSeq(paths,
                          LAMBDA p : /\ Len(Components(p)) = Len(pc)
                                     /\ \A n \in DOMAIN pc : ComponentMatches(pc[n], Components(p)[n])))

\* filesystem_glob(uri) on the local tree
filesystem_glob(pat) == GlobOnTree(LocalPaths, pat)

-----------------------------------------------------------------------------
(* The facade, step by step *)

\* A mode check that knows the write mode alone
ModeRejected_WriteOnly(mode) == mode = "w"

\* not mode in _OPEN_MODES
ModeRejected(mode) == mode \notin _OPEN_MODES

\* The local branch of each function: the native call on the expanded path.
\* io.open(uri, mode=mode, encoding=encoding) refuses an encoding in binary
\* mode, and in text mode without one it decodes with the locale's encoding
LocalResult(sub, uri, mode, encoding) ==
    CASE sub = "open" ->
            IF mode = "rb" /\ encoding # "None" THEN Raise("ValueError")
            ELSE IF os_path_isfile(uri)
            THEN Ok([type |-> IF mode = "rb" THEN "BufferedReader" ELSE "TextIOWrapper",
                     source |-> "file", name |-> uri,
                     encoding |-> IF mode = "rb" THEN "none"
                                  ELSE IF encoding = "None" THEN locale ELSE encoding])
            ELSE Raise("OSError")
      [] sub = "isfile" -> Ok(os_path_isfile(uri))
      [] sub = "isdir" -> Ok(os_path_isdir(uri))
      [] sub = "exists" -> Ok(os_path_exists(uri))
      [] sub = "abspath" -> Ok(os_path_abspath(uri))
      [] sub = "glob" -> filesystem_glob(uri)

\* A thread calls op(uri, mode, encoding), one of the calls C; mode and encoding
\* are read by open alone
Call(t, C) ==
    /\ phase = "running"
    /\ th[t].pc = "idle"
    /\ th[t].n < MaxOps
    /\ \E c \in C :
          th' = [th EXCEPT ![t] = [IdleFrame EXCEPT !.pc = "enter", !.op = c[1], !.sub = c[1],
                                                   !.arg = c[2], !.uri = c[2], !.mode = c[3],
                                                   !.encoding = c[4],
                                                   !.n = th[t].n + 1]]
    /\ UNCHANGED <<S3_CLIENT, constructed, factoryCalls, atexit, closed, used, phase, store, locale>>

\* The head without abspath's remote branch: abspath goes on to the client
Enter_AbspathUsesClient(t) ==
    LET f == th[t]
        u == expandvars(f.uri)
        g == [f EXCEPT !.uri = u, !.nexp = f.nexp + 1]
    IN  /\ f.pc = "enter"
        /\ th' = [th EXCEPT ![t] =
                    IF f.sub = "open" /\ ModeRejected(f.mode) THEN Return(f, Raise("ValueError"))
                    ELSE IF ~_is_s3_uri(u)
                         THEN Return([g EXCEPT !.fs = f.fs + 1], LocalResult(f.sub, u, f.mode, f.encoding))
                    ELSE IF f.sub = "exists"
                         THEN [g EXCEPT !.outer = u, !.sub = "isdir", !.pc = "enter"]
                    ELSE [g EXCEPT !.pc = "ensure"]]
        /\ UNCHANGED <<S3_CLIENT, constructed, factoryCalls, atexit, closed, used, phase, store, locale>>

\* The head of the function f.sub up to its branch on _is_s3_uri: open checks
\* its mode first; every function expands its argument; the local branch makes
\* the native call and returns; remote abspath returns the expanded uri; remote
\* exists calls isdir(uri); the others go on to _ensure_s3_client().
Enter(t) ==
    LET f == th[t]
        u == expandvars(f.uri)
        g == [f EXCEPT !.uri = u, !.nexp = f.nexp + 1]
    IN  /\ f.pc = "enter"
        /\ th' = [th EXCEPT ![t] =
                    IF f.sub = "open" /\ ModeRejected(f.mode) THEN Return(f, Raise("ValueError"))
                    ELSE IF ~_is_s3_uri(u)
                         THEN Return([g EXCEPT !.fs = f.fs + 1], LocalResult(f.sub, u, f.mode, f.encoding))
                    ELSE IF f.sub = "abspath" THEN Return(g, Ok(u))
                    ELSE IF f.sub = "exists"
                         THEN [g EXCEPT !.outer = u, !.sub = "isdir", !.pc = "enter"]
                    ELSE [g EXCEPT !.pc = "ensure"]]
        /\ UNCHANGED <<S3_CLIENT, constructed, factoryCalls, atexit, closed, used, phase, store, locale>>

\* _ensure_s3_client without its test of the global: it always constructs
Ensure_AlwaysConstruct(t) ==
    /\ th[t].pc = "ensure"
    /\ th' = [th EXCEPT ![t].pc = "factory"]
    /\ UNCHANGED <<S3_CLIENT, constructed, factoryCalls, atexit, closed, used, phase, store, locale>>

\* An _ensure_s3_client whose atexit.register is outside the if: it registers
\* the close of whatever handle the global holds
Ensure_RegisterOutsideIf(t) ==
    /\ th[t].pc = "ensure"
    /\ th' = [th EXCEPT ![t].pc = IF S3_CLIENT = 0 THEN "factory" ELSE "register"]
    /\ UNCHANGED <<S3_CLIENT, constructed, factoryCalls, atexit, closed, used, phase, store, locale>>

\* if _S3_CLIENT is None
Ensure(t) ==
    /\ th[t].pc = "ensure"
    /\ th' = [th EXCEPT ![t].pc = IF S3_CLIENT = 0 THEN "factory" ELSE "use"]
    /\ UNCHANGED <<S3_CLIENT, constructed, factoryCalls, atexit, closed, used, phase, store, locale>>

\* The import and ConcurrentS3Client() return a new handle, not yet stored
FactoryOk(t) ==
    /\ th[t].pc = "factory"
    /\ constructed' = constructed + 1
    /\ factoryCalls' = factoryCalls + 1
    /\ closed' = Append(closed, 0)
    /\ th' = [th EXCEPT ![t].tmp = constructed + 1, ![t].pc = "assign"]
    /\ UNCHANGED <<S3_CLIENT, atexit, used, phase, store, locale>>

\* A constructor that stores the unfinished client in the global before it raises
FactoryRaise_StoresFirst(t) ==
    /\ th[t].pc = "factory"
    /\ factoryCalls' = factoryCalls + 1
    /\ S3_CLIENT' = constructed + 1
    /\ th' = [th EXCEPT ![t] = Return(th[t], Raise("FactoryError"))]
    /\ UNCHANGED <<constructed, atexit, closed, used, phase, store, locale>>

\* The import or ConcurrentS3Client() raises: the error leaves the facade function
FactoryRaise(t) ==
    /\ th[t].pc = "factory"
    /\ factoryCalls' = factoryCalls + 1
    /\ th' = [th EXCEPT ![t] = Return(th[t], Raise("FactoryError"))]
    /\ UNCHANGED <<S3_CLIENT, constructed, atexit, closed, used, phase, store, locale>>

\* An assignment without the global statement: the handle goes to a local name
Assign_WithoutGlobal(t) ==
    /\ th[t].pc = "assign"
    /\ th' = [th EXCEPT ![t].pc = "register"]
    /\ UNCHANGED <<S3_CLIENT, constructed, factoryCalls, atexit, closed, used, phase, store, locale>>

\* _S3_CLIENT = <the new handle>
Assign(t) ==
    /\ th[t].pc = "assign"
    /\ S3_CLIENT' = th[t].tmp
    /\ th' = [th EXCEPT ![t].pc = "register"]
    /\ UNCHANGED <<constructed, factoryCalls, atexit, closed, used, phase, store, locale>>

\* atexit.register(_S3_CLIENT.close): the global is read again
Register(t) ==
    /\ th[t].pc = "register"
    /\ atexit' = Append(atexit, S3_CLIENT)
    /\ th' = [th EXCEPT ![t].pc = "use"]
    /\ UNCHANGED <<S3_CLIENT, constructed, factoryCalls, closed, used, phase, store, locale>>


\* _GLOB_CHARACTER_RE.search(key): 0-based index of the first *, ? or [, -1 if none
RECURSIVE GlobCharSearch(_, _)
GlobCharSearch(key, i) ==
    IF i >= Len(key) THEN -1
    ELSE IF At(key, i) \in {"*", "?", "["} THEN i
    ELSE GlobCharSearch(key, i + 1)

\* A prefix that is the whole key, wildcards and all
GlobKeyPrefix_WholeKey(key) == key

\* key_prefix: key[0:match.start()] if there is a match, else key
GlobKeyPrefix(key) ==
    LET m == GlobCharSearch(key, 0)
    IN  IF m >= 0 THEN Slice(key, 0, m) ELSE key

\* f"s3://{bucket_name}/{k}"
S3Uri(bucket, k) == S3_PREFIX \o bucket \o <<"/">> \o k

\* The two lines of glob after the listing: compile the translated key, keep
\* the candidates the matcher accepts, each as a full URI
GlobFilter(bucket, key, key_candidates) ==
    LET compiled == re_compile(_glob_to_re(key))
    IN  IF ~compiled.ok THEN Raise("re.error")
        ELSE LET kept == SelectSeq(key_candidates, LAMBDA k : re_match(compiled, k))
             IN  Ok([n \in 1..Len(kept) |-> S3Uri(bucket, kept[n])])

\* An isdir that asks about the key as it is
IsdirPrefix_NoSlash(key) == key

\* The prefix isdir asks about: the key with a "/" added unless it ends with one
IsdirPrefix(key) == IF EndsWith(key, <<"/">>) THEN key ELSE key \o <<"/">>

\* The collaborator call of the remote branch of f.sub: its method and key argument
RemoteMethod(sub) ==
    CASE sub = "open" -> "get_object"
      [] sub = "isfile" -> "object_exists"
      [] sub = "isdir" -> "prefix_exists"
      [] sub = "glob" -> "iterate_keys"

RemoteKeyArg(sub, key) ==
    CASE sub = "open" -> key
      [] sub = "isfile" -> key
      [] sub = "isdir" -> IsdirPrefix(key)
      [] sub = "glob" -> GlobKeyPrefix(key)

\* What the remote branch returns when the collaborator call returns
RemoteResult(sub, bucket, key, mode, encoding) ==
    CASE sub = "open" ->
            IF ~object_exists(bucket, key) THEN Raise("NoSuchKey")
            ELSE Ok([type |-> IF mode = "rb" THEN "BytesIO" ELSE "TextIOWrapper",
                     source |-> "object", name |-> key,
                     encoding |-> IF mode = "rb" THEN "none"
                                  ELSE IF encoding = "None" THEN _SYSTEM_ENCODING ELSE encoding])
      [] sub = "isfile" -> Ok(object_exists(bucket, key))
      [] sub = "isdir" -> Ok(prefix_exists(bucket, IsdirPrefix(key)))
      [] sub = "glob" -> GlobFilter(bucket, key, iterate_keys(bucket, GlobKeyPrefix(key)))

\* The remote branch from the parse on, with a client whose calls return
RemoteValue(sub, uri, mode, encoding) ==
    LET parts == _parse_s3_uri(uri)
    IN  IF Len(parts) # 2 THEN Raise("ValueError")
        ELSE RemoteResult(sub, parts[1], parts[2], mode, encoding)

\* What sub(arg, mode, encoding) returns or raises against the store as it is now, when
\* the factory and the collaborator do not fail: the function body as one value
RECURSIVE FacadeValue(_, _, _, _)
FacadeValue(sub, arg, mode, encoding) ==
    LET u == expandvars(arg)
    IN  IF sub = "open" /\ ModeRejected(mode) THEN Raise("ValueError")
        ELSE IF ~_is_s3_uri(u) THEN LocalResult(sub, u, mode, encoding)
        ELSE IF sub = "abspath" THEN Ok(u)
        ELSE IF sub = "exists"
             THEN LET d == FacadeValue("isdir", u, mode, encoding)
                  IN  IF d.kind = "ok" /\ d.val = FALSE
                      THEN FacadeValue("isfile", u, mode, encoding)
                      ELSE d
        ELSE RemoteValue(sub, u, mode, encoding)

\* The collaborator calls of the remote branch: none when the unpacking raises
RemoteCalls(sub, uri) ==
    LET parts == _parse_s3_uri(uri)
    IN  IF Len(parts) # 2 THEN <<>>
        ELSE << [method |-> RemoteMethod(sub), bucket |-> parts[1],
                 key |-> RemoteKeyArg(sub, parts[2])] >>

\* The collaborator calls that sub(arg, mode) makes against the store as it is
\* now, in order, when the factory and the collaborator do not fail
RECURSIVE FacadeCalls(_, _, _)
FacadeCalls(sub, arg, mode) ==
    LET u == expandvars(arg)
    IN  IF sub = "open" /\ ModeRejected(mode) THEN <<>>
        ELSE IF ~_is_s3_uri(u) THEN <<>>
        ELSE IF sub = "abspath" THEN <<>>
        ELSE IF sub = "exists"
             THEN IF FacadeValue("isdir", u, mode, "None") = Ok(FALSE)
                  THEN FacadeCalls("isdir", u, mode) \o FacadeCalls("isfile", u, mode)
                  ELSE FacadeCalls("isdir", u, mode)
        ELSE RemoteCalls(sub, u)

\* The record of one collaborator call on the handle that is in the global now
CallRecord(f, parts) ==
    [h |-> S3_CLIENT, method |-> RemoteMethod(f.sub), bucket |-> parts[1],
     key |-> RemoteKeyArg(f.sub, parts[2])]

\* bucket_name, key = _parse_s3_uri(uri) and the call on _S3_CLIENT, which
\* returns: the unpacking raises ValueError unless the list has two parts
UseOk(t) ==
    LET f == th[t]
        parts == _parse_s3_uri(f.uri)
    IN  /\ f.pc = "use"
        /\ IF Len(parts) # 2
           THEN /\ th' = [th EXCEPT ![t] = Return(f, Raise("ValueError"))]
                /\ used' = used
           ELSE /\ th' = [th EXCEPT ![t] =
                            Return([f EXCEPT !.calls = Append(f.calls, CallRecord(f, parts))],
                                   RemoteResult(f.sub, parts[1], parts[2], f.mode, f.encoding))]
                /\ used' = used \cup {S3_CLIENT}
        /\ UNCHANGED <<S3_CLIENT, constructed, factoryCalls, atexit, closed, phase, store, locale>>

\* The same call, and the collaborator raises
UseRaise(t) ==
    LET f == th[t]
        parts == _parse_s3_uri(f.uri)
    IN  /\ f.pc = "use"
        /\ Len(parts) = 2
        /\ th' = [th EXCEPT ![t] =
                    Return([f EXCEPT !.calls = Append(f.calls, CallRecord(f, parts))],
                           Raise("CollaboratorError"))]
        /\ used' = used \cup {S3_CLIENT}
        /\ UNCHANGED <<S3_CLIENT, constructed, factoryCalls, atexit, closed, phase, store, locale>>

\* Normal process exit: every thread has returned from its call
BeginExit ==
    /\ phase = "running"
    /\ \A t \in Threads : th[t].pc = "idle"
    /\ phase' = "exiting"
    /\ UNCHANGED <<S3_CLIENT, constructed, factoryCalls, atexit, closed, used, store, locale, th>>

\* atexit runs the registered close callbacks, last registered first
RunExitHook ==
    /\ phase = "exiting"
    /\ atexit # <<>>
    /\ closed' = [closed EXCEPT ![atexit[Len(atexit)]] = @ + 1]
    /\ atexit' = SubSeq(atexit, 1, Len(atexit) - 1)
    /\ UNCHANGED <<S3_CLIENT, constructed, factoryCalls, used, phase, store, locale, th>>

FinishExit ==
    /\ phase = "exiting"
    /\ atexit = <<>>
    /\ phase' = "exited"
    /\ UNCHANGED <<S3_CLIENT, constructed, factoryCalls, atexit, closed, used, store, locale, th>>

\* One step of thread t inside a facade call
Step(t) ==
    \/ Enter(t)
    \/ Ensure(t)
    \/ FactoryOk(t)
    \/ FactoryRaise(t)
    \/ Assign(t)
    \/ Register(t)
    \/ UseOk(t)
    \/ UseRaise(t)

Exit == BeginExit \/ RunExitHook \/ FinishExit


\* The caller takes the result: the frame is free for the thread's next call
Finish(t) ==
    /\ th[t].pc = "done"
    /\ th' = [th EXCEPT ![t] = [IdleFrame EXCEPT !.n = th[t].n]]
    /\ UNCHANGED <<S3_CLIENT, constructed, factoryCalls, atexit, closed, used, phase, store, locale>>

-----------------------------------------------------------------------------
(* The read helpers *)

\* A helper that builds the client before it opens its uri
CallHelper_EnsuresClient(t, C) ==
    /\ phase = "running"
    /\ th[t].pc = "idle"
    /\ th[t].n < MaxOps
    /\ \E c \in C :
          th' = [th EXCEPT ![t] = [IdleFrame EXCEPT !.pc = "ensure", !.op = c[1], !.sub = "open",
                                                   !.arg = c[2], !.uri = c[2],
                                                   !.mode = HelperOpenMode(c[1]),
                                                   !.hmode = c[3],
                                                   !.n = th[t].n + 1]]
    /\ UNCHANGED <<S3_CLIENT, constructed, factoryCalls, atexit, closed, used, phase, store, locale>>

\* A thread calls helper(uri) or read_hdf5(uri, hmode), one of the calls C: the
\* helper calls open(uri, "rb") or open(uri), and hmode goes to the decoder
CallHelper(t, C) ==
    /\ phase = "running"
    /\ th[t].pc = "idle"
    /\ th[t].n < MaxOps
    /\ \E c \in C :
          th' = [th EXCEPT ![t] = [IdleFrame EXCEPT !.pc = "enter", !.op = c[1], !.sub = "open",
                                                   !.arg = c[2], !.uri = c[2],
                                                   !.mode = HelperOpenMode(c[1]),
                                                   !.hmode = c[3],
                                                   !.n = th[t].n + 1]]
    /\ UNCHANGED <<S3_CLIENT, constructed, factoryCalls, atexit, closed, used, phase, store, locale>>

\* file.read() of read_ascii_table: a text that does not decode raises, and
\* the with statement closes the stream on the way out
ReadStream(t) ==
    LET f == th[t]
        r == ReadAll(f.file)
    IN  /\ f.pc = "read"
        /\ th' = [th EXCEPT ![t] =
                    IF r.kind = "ok" THEN [f EXCEPT !.pc = "decode"]
                    ELSE [f EXCEPT !.pc = "done", !.result = r, !.stream = "closed"]]
        /\ UNCHANGED <<S3_CLIENT, constructed, factoryCalls, atexit, closed, used, phase, store, locale>>

\* What a format decoder does with its input: it returns an object or raises
DecoderResults == {Ok("decoded"), Raise("DecoderError")}

\* A helper that reports every failure of its decoder as a ValueError
HelperResult_Translated(d) == IF d.kind = "raise" THEN Raise("ValueError") ELSE d

\* return decoder(...): what the decoder returns or raises is what the helper
\* returns or raises
HelperResult(d) == d

\* The decoder call of a helper.  yaml.safe_load reads the text stream itself,
\* so it raises the decoding error of a stream that does not decode.  A with
\* statement closes the stream when the decoder returns or raises; the other
\* helpers pass the stream on: the object a decoder returns reads from it, and
\* a decoder that raises has closed it or has left it open.
DecodeStream(t) ==
    LET f == th[t]
        unreadable == f.op = "read_yaml" /\ ReadAll(f.file).kind = "raise"
    IN  /\ f.pc = "decode"
        /\ \E o \in DecoderResults, left \in {"open", "closed"} :
              /\ o.kind = "ok" => (left = "open" /\ ~unreadable)
              /\ th' = [th EXCEPT ![t] =
                          LET d == IF unreadable THEN ReadAll(f.file) ELSE o
                          IN  [f EXCEPT !.pc = "done", !.dec = d, !.decoded = f.decoded + 1,
                                        !.result = HelperResult(d),
                                        !.stream = IF f.op \in ScopedHelpers THEN "closed" ELSE left]]
        /\ UNCHANGED <<S3_CLIENT, constructed, factoryCalls, atexit, closed, used, phase, store, locale>>

-----------------------------------------------------------------------------
(* Inputs and specifications *)

\* The values of open's mode argument: the two read modes and three others
Modes == {"r", "rb", "w", "a", "rt"}

Ops == {"open", "isfile", "isdir", "exists", "abspath", "glob"}

\* <<op, uri, mode, encoding>> for the uris U: open with each mode and
\* encoding, the others with the defaults
CallsOn(U) ==
    {<<"open", u, m, e>> : u \in U, m \in Modes, e \in Encodings}
    \cup {<<op, u, "r", "None">> : op \in Ops \ {"open"}, u \in U}

\* Concurrent threads: every remote function on one object
ConcUris == {<<"s", "3", ":", "/", "/", "b", "/", "a">>}

ConcStores == {<< <<"a">> >>}

\* One thread: remote and local uris of every shape, with and without
\* environment references
SeqUris == {
    <<"s", "3", ":", "/", "/", "b", "/", "a">>,
    <<"s", "3", ":", "/", "/", "b", "/", "a", "/">>,
    <<"s", "3", ":", "/", "/", "b", "/", "a", "/", "/">>,
    <<"s", "3", ":", "/", "/", "b", "/", "a", "b">>,
    <<"s", "3", ":", "/", "/", "b">>,
    <<"s", "3", ":", "/", "/", "b", "/">>,
    <<"s", "3", ":", "/", "/", "c", "/", "a">>,
    <<"s", "3", ":", "/", "/", "b", "/", "d">>,
    <<"s", "3", ":", "/", "/", "b", "/", "d", "/">>,
    <<"$", "V">>,
    <<"$", "V", "/">>,
    <<"$", "V", "/", "a">>,
    <<"$", "{", "V", "}", "/", "a">>,
    <<"$", "W">>,
    <<"$", "W", "/", "x">>,
    <<"s", "3", ":", "/", "/", "b", "/", "$", "K">>,
    <<"s", "3", ":", "/", "/", "b", "/", "s", "3", ":", "/", "/", "a">>,
    <<"s", "3", ":", "/", "/", "b", "/", "a", "*">>,
    <<"s", "3", ":", "/", "/", "b", "/", "d", "/", "*">>,
    <<"a">>,
    <<"d">>,
    <<"d", "/">>,
    <<"d", "/", "a">>,
    <<"x">>,
    <<"$", "L">>,
    <<"$", "L", "/", "a">>,
    <<"d", "/", "*">>,
    <<"$", "K">>,
    <<"S", "3", ":", "/", "/", "b", "/", "a">>,
    <<"d", "/", "s", "3", ":", "/", "/", "b", "/", "a">>
}

SeqStores == {
    <<>>,
    <<<<"a">>>>,
    <<<<"a", "/", "x">>>>,
    <<<<"a", "b", "/", "x">>>>,
    <<<<"d", "/", "a">>, <<"a">>>>,
    <<<<"a", "/", "/", "x">>, <<"$", "K">>>>,
    <<<<"a", "/", "x">>, <<"a">>, <<"d", "/", "a", "/", "x">>>>
}

\* glob on a remote pattern: every string over the alphabet up to MaxPatLen
GlobAlphabet == {"a", "/", "*", "?", ".", "[", "]"}

GlobPatterns == UNION {[1..n -> GlobAlphabet] : n \in 0..MaxPatLen}

GlobUris == {S3_PREFIX \o BUCKET \o <<"/">> \o p : p \in GlobPatterns}

GlobCalls == {<<"glob", u, "r", "None">> : u \in GlobUris}

GlobStores == {
    <<<<"b", "/", "a">>, <<"a">>, <<"a", "/", "b">>, <<"a", "/", "b", "/", "a">>, <<".", "a">>, <<"a", "b">>, <<"[", "a">>>>,
    <<<<"a", "/">>, <<"/", "a">>, <<"a", "/", "/", "b">>, <<"a", "]">>, <<"*">>, <<"a", "*">>, <<"?">>, <<>>>>
}

InitShared ==
    /\ S3_CLIENT = 0
    /\ constructed = 0
    /\ factoryCalls = 0
    /\ atexit = <<>>
    /\ closed = <<>>
    /\ used = {}
    /\ phase = "running"
    /\ th = [t \in Threads |-> IdleFrame]

\* Every call the concurrent threads make
ConcCalls == CallsOn(ConcUris)

\* The concurrent threads and the glob specifications open no local file, so
\* nothing in them reads the locale
Init == InitShared /\ store \in ConcStores /\ locale = _SYSTEM_ENCODING

Next ==
    \/ \E t \in Threads :
          \/ Call(t, ConcCalls)
          \/ Step(t)
          \/ Finish(t)
    \/ Exit

Spec == Init /\ [][Next]_vars

\* Every call the single thread makes
SeqCalls == CallsOn(SeqUris)

InitSeq == InitShared /\ store \in SeqStores /\ locale \in LocaleEncodings

NextSeq ==
    \/ Call(1, SeqCalls)
    \/ Step(1)
    \/ Finish(1)
    \/ Exit

SpecSeq == InitSeq /\ [][NextSeq]_vars

InitGlob == InitShared /\ store \in GlobStores /\ locale = _SYSTEM_ENCODING

NextGlob ==
    \/ Call(1, GlobCalls)
    \/ Step(1)
    \/ Finish(1)
    \/ Exit

SpecGlob == InitGlob /\ [][NextGlob]_vars

\* Remote glob on bracket expressions: an opening bracket, at the start of the
\* key or after one literal, and every string up to MaxPatLen after it
BracketAlphabet == {"[", "]", "!", "-", "a", "b"}

BracketPatterns ==
    {pre \o <<"[">> \o q : pre \in {<<>>, <<"a">>},
                           q \in UNION {[1..n -> BracketAlphabet] : n \in 0..MaxPatLen}}

BracketCalls == {<<"glob", S3_PREFIX \o BUCKET \o <<"/">> \o p, "r", "None">> : p \in BracketPatterns}

BracketStores == {
    << <<"a">>, <<"b">>, <<"-">>, <<"!">>, <<"[">>, <<"]">>, <<"a", "a">>, <<"a", "b">>,
       <<"a", "[">>, <<"[", "!", "]">>, <<"[", "a">>, <<"a", "[", "b", "-">> >>
}

InitBracket == InitShared /\ store \in BracketStores /\ locale = _SYSTEM_ENCODING

NextBracket ==
    \/ Call(1, BracketCalls)
    \/ Step(1)
    \/ Finish(1)
    \/ Exit

SpecBracket == InitBracket /\ [][NextBracket]_vars

\* The helpers and the facade functions on a few uris: objects and files that
\* are there, with ASCII text and without, and some that are missing
HelperUris == {
    <<"s", "3", ":", "/", "/", "b", "/", "a">>,
    <<"s", "3", ":", "/", "/", "b", "/", "d", "/", "a">>,
    <<"s", "3", ":", "/", "/", "b", "/", "x">>,
    <<"s", "3", ":", "/", "/", "b">>,
    <<"$", "V", "/", "a">>,
    <<"a">>,
    <<"d", "/", "a">>,
    <<"x">>,
    <<"$", "L", "/", "a">>
}

\* The values of the mode argument of read_hdf5
HelperModes == {"r", "w"}

\* <<helper, uri, hmode>>: read_hdf5 with each mode, the others without one
HelperCalls ==
    {<<h, u, "r">> : h \in Helpers, u \in HelperUris}
    \cup {<<"read_hdf5", u, m>> : u \in HelperUris, m \in HelperModes}

HelperFacadeCalls == CallsOn(HelperUris)

HelperStores == {
    << <<"a">> >>,
    << <<"a">>, <<"d", "/", "a">> >>
}

InitHelper == InitShared /\ store \in HelperStores /\ locale \in LocaleEncodings

NextHelper ==
    \/ CallHelper(1, HelperCalls)
    \/ Call(1, HelperFacadeCalls)
    \/ Step(1)
    \/ ReadStream(1)
    \/ DecodeStream(1)
    \/ Finish(1)
    \/ Exit

SpecHelper == InitHelper /\ [][NextHelper]_vars

\* The handle that monkeypatch.setattr(file_utils, "_S3_CLIENT", MockS3Client())
\* puts in the global: no handle of the factory
MockHandle == -1

\* A process that starts with the global None or with the test's handle in it
MockUris == {
    <<"s", "3", ":", "/", "/", "b", "/", "a">>,
    <<"s", "3", ":", "/", "/", "b", "/", "d">>,
    <<"$", "V", "/", "a">>,
    <<"a">>
}

MockCalls == CallsOn(MockUris)

MockStores == {
    << <<"a">> >>,
    << <<"a">>, <<"d", "/", "a">> >>
}

InitMock ==
    /\ S3_CLIENT \in {0, MockHandle}
    /\ constructed = 0
    /\ factoryCalls = 0
    /\ atexit = <<>>
    /\ closed = <<>>
    /\ used = {}
    /\ phase = "running"
    /\ th = [t \in Threads |-> IdleFrame]
    /\ store \in MockStores
    /\ locale = _SYSTEM_ENCODING

NextMock ==
    \/ Call(1, MockCalls)
    \/ Step(1)
    \/ Finish(1)
    \/ Exit

SpecMock == InitMock /\ [][NextMock]_vars

\* An exit callback that the host program registered before the first remote
\* call: atexit runs it after the close of the handle in the global, which was
\* registered later, and it calls a facade function
CallAtExit(t, C) ==
    /\ phase = "exiting"
    /\ atexit = <<>>
    /\ S3_CLIENT > 0
    /\ closed[S3_CLIENT] > 0
    /\ th[t].pc = "idle"
    /\ th[t].n < MaxOps
    /\ \E c \in C :
          th' = [th EXCEPT ![t] = [IdleFrame EXCEPT !.pc = "enter", !.op = c[1], !.sub = c[1],
                                                   !.arg = c[2], !.uri = c[2], !.mode = c[3],
                                                   !.encoding = c[4],
                                                   !.n = th[t].n + 1]]
    /\ UNCHANGED <<S3_CLIENT, constructed, factoryCalls, atexit, closed, used, phase, store, locale>>

\* The last exit callback has returned
FinishExitCallbacks ==
    /\ \A t \in Threads : th[t].pc = "idle"
    /\ FinishExit

InitExit == InitShared /\ store \in MockStores /\ locale = _SYSTEM_ENCODING

NextExit ==
    \/ Call(1, MockCalls)
    \/ CallAtExit(1, MockCalls)
    \/ Step(1)
    \/ Finish(1)
    \/ BeginExit
    \/ RunExitHook
    \/ FinishExitCallbacks

SpecExit == InitExit /\ [][NextExit]_vars

\* Remote glob on the patterns that decide the listing prefix: literals, a
\* separator, and each character that ends the prefix (a bracket here opens
\* and is not closed; the bracket specification has the closed ones)
PrefixAlphabet == {"a", "/", "*", "?", ".", "["}

PrefixPatterns == UNION {[1..n -> PrefixAlphabet] : n \in 0..MaxPatLen}

PrefixCalls == {<<"glob", S3_PREFIX \o BUCKET \o <<"/">> \o p, "r", "None">> : p \in PrefixPatterns}

NextPrefix ==
    \/ Call(1, PrefixCalls)
    \/ Step(1)
    \/ Finish(1)
    \/ Exit

SpecPrefix == InitGlob /\ [][NextPrefix]_vars

\* A call that has returned to its caller without a failure of the factory or
\* of the collaborator has the value of its function body
CallsHaveFacadeValue ==
    \A t \in Threads :
       (th[t].pc = "done" /\ th[t].result \notin {Raise("FactoryError"), Raise("CollaboratorError")})
          => th[t].result = FacadeValue(th[t].op, th[t].arg, th[t].mode, th[t].encoding)

\* Remote glob on a store that holds one key per file of a directory tree
TreeStores == {
    << <<"a">>, <<".", "a">>, <<"d", "/", "a">>, <<"d", "/", ".", "a">>, <<"d", "/", "a", "a">> >>
}

InitTree == InitShared /\ store \in TreeStores /\ locale = _SYSTEM_ENCODING

SpecTree == InitTree /\ [][NextGlob]_vars

\* The calls of a frame without the handle they went to
CallsMade(f) ==
    [n \in 1..Len(f.calls) |->
        [method |-> f.calls[n].method, bucket |-> f.calls[n].bucket, key |-> f.calls[n].key]]

\* and such a call has made the collaborator calls of its function body
CallsHaveFacadeCalls ==
    \A t \in Threads :
       (th[t].pc = "done" /\ th[t].result \notin {Raise("FactoryError"), Raise("CollaboratorError")})
          => CallsMade(th[t]) = FacadeCalls(th[t].op, th[t].arg, th[t].mode)

-----------------------------------------------------------------------------
(* The singleton *)

\* C1: when several threads make their first remote call at once, one client
\* handle is constructed in the whole execution and every collaborator call
\* of every thread goes to it.
C1_OneHandleForAllThreads == constructed <= 1 /\ used \subseteq {1}

\* C2 as written: in a single-threaded execution the factory is invoked at most
\* once, and a handle in the global is never replaced or removed.
C2_FactoryInvokedAtMostOnce ==
    [][factoryCalls' <= 1 /\ (S3_CLIENT # 0 => S3_CLIENT' = S3_CLIENT)]_vars

\* C2, amended: in a single-threaded execution the factory returns a handle at
\* most once (an invocation that raised may be followed by another), it is not
\* invoked again once the global holds a handle, and that handle is never
\* replaced or removed.
C2_ConstructedAtMostOnce ==
    [][/\ constructed' <= 1
       /\ S3_CLIENT # 0 => (S3_CLIENT' = S3_CLIENT /\ factoryCalls' = factoryCalls)]_vars

\* A second call runs on the handle that a first call constructed
C2_Witness ==
    /\ S3_CLIENT = 1
    /\ th[1].n = 2
    /\ th[1].pc = "done"
    /\ th[1].calls # <<>>
    /\ factoryCalls = 1

\* C3: at normal process exit the close of every handle that was constructed
\* has run exactly once.
C3_EveryHandleClosedOnce ==
    phase = "exited" => \A h \in 1..constructed : closed[h] = 1

\* C4: when the factory raises, the error is the result of the call, the global
\* stays None and nothing is registered with atexit; and a call that finds the
\* global None at its test goes to the factory, which counts as a new attempt.
C4_FactoryFailureLeavesNoClient ==
    [][\A t \in Threads :
          /\ (factoryCalls' = factoryCalls + 1 /\ constructed' = constructed /\ th'[t] # th[t])
                => /\ th'[t].pc = "done"
                   /\ th'[t].result = Raise("FactoryError")
                   /\ th'[t].calls = th[t].calls
                   /\ S3_CLIENT = 0 /\ S3_CLIENT' = 0
                   /\ atexit = <<>> /\ atexit' = <<>>
          /\ (th[t].pc = "ensure" /\ S3_CLIENT = 0 /\ th'[t] # th[t])
                => th'[t].pc = "factory"
          /\ (th[t].pc = "factory" /\ th'[t] # th[t])
                => factoryCalls' = factoryCalls + 1]_vars

\* After a first call whose factory raised, the second call is at the factory again
C4_Witness ==
    /\ th[1].n = 2
    /\ th[1].pc = "factory"
    /\ factoryCalls = 1
    /\ constructed = 0
    /\ S3_CLIENT = 0

-----------------------------------------------------------------------------
(* open's mode *)

\* C5: open with a mode other than "r" and "rb" raises ValueError for every
\* uri, as its first step: nothing is expanded, no filesystem or collaborator
\* call is made, no client is constructed and the global is left as it was.
C5_InvalidModeRaisesFirst ==
    [][\A t \in Threads :
          (th[t].pc = "enter" /\ th[t].op = "open" /\ th[t].mode \notin {"r", "rb"}
           /\ th'[t] # th[t])
             => /\ th'[t].pc = "done"
                /\ th'[t].result = Raise("ValueError")
                /\ th'[t].nexp = 0
                /\ th'[t].fs = 0
                /\ th'[t].calls = <<>>
                /\ UNCHANGED <<S3_CLIENT, constructed, factoryCalls, atexit, used>>]_vars

\* open("$V/a", "a"), a remote uri behind an environment reference, has raised
C5_Witness ==
    /\ th[1].pc = "done"
    /\ th[1].op = "open"
    /\ th[1].mode = "a"
    /\ th[1].arg = <<"$", "V", "/", "a">>
    /\ th[1].result = Raise("ValueError")

-----------------------------------------------------------------------------
(* exists, isfile and isdir *)

\* C6: for every uri x, local or remote, against the same store and
\* environment, exists(x) returns the boolean (isfile(x) or isdir(x)).
C6_ExistsIsFileOrDir ==
    \A t \in Threads :
       LET f == th[t]
           fv == FacadeValue("isfile", f.arg, f.mode, f.encoding)
           dv == FacadeValue("isdir", f.arg, f.mode, f.encoding)
       IN  (f.pc = "done" /\ f.op = "exists" /\ f.result.kind = "ok"
            /\ fv.kind = "ok" /\ dv.kind = "ok")
              => f.result.val = (fv.val \/ dv.val)

\* C7: for every string ref that starts with s3://, isdir(ref) and
\* isdir(ref + "/") have the same outcome, and the same prefix goes to the
\* collaborator.
C7_IsdirSameWithTrailingSlash ==
    \A t \in Threads :
       LET f == th[t]
           withSlash == f.arg \o <<"/">>
           parts == _parse_s3_uri(expandvars(withSlash))
       IN  (f.pc = "done" /\ f.op = "isdir" /\ _is_s3_uri(f.arg)
            /\ f.result \notin {Raise("FactoryError"), Raise("CollaboratorError")})
              => /\ f.result = FacadeValue("isdir", withSlash, f.mode, f.encoding)
                 /\ Len(f.calls) = 1
                 /\ Len(parts) = 2
                 /\ f.calls[1].key = RemoteKeyArg("isdir", parts[2])

\* A direct call of isfile or isdir on a remote uri has returned to its caller
\* and neither the factory nor the collaborator failed
RemoteProbeDone(f) ==
    /\ f.pc = "done"
    /\ f.op \in {"isfile", "isdir"}
    /\ _is_s3_uri(f.uri)
    /\ f.result \notin {Raise("FactoryError"), Raise("CollaboratorError")}

\* Some key of the bucket's store is k, or starts with p
KeyInStore(bucket, k) == bucket = BUCKET /\ \E n \in DOMAIN store : store[n] = k

PrefixInStore(bucket, p) ==
    bucket = BUCKET /\ \E n \in DOMAIN store : Len(store[n]) >= Len(p) /\ SubSeq(store[n], 1, Len(p)) = p

\* C8 as written: on a remote uri isfile is true exactly when the key is a key
\* of the store, and isdir is true exactly when some key of the store starts
\* with the key followed by "/".
C8_IsdirIffKeyThenSlash ==
    \A t \in Threads :
       LET f == th[t]
           parts == _parse_s3_uri(f.uri)
       IN  RemoteProbeDone(f) =>
              /\ f.op = "isfile" =>
                    (f.result = Ok(TRUE) <=> (Len(parts) = 2 /\ KeyInStore(parts[1], parts[2])))
              /\ f.op = "isdir" =>
                    (f.result = Ok(TRUE)
                       <=> (Len(parts) = 2 /\ PrefixInStore(parts[1], parts[2] \o <<"/">>)))

\* C8, amended: on a remote uri isfile is true exactly when the key the
\* resolver extracts is a key of the store, and isdir is true exactly when
\* some key of the store starts with that key made to end with "/": the key
\* itself when it ends with "/" already, otherwise the key followed by "/".
\* When the resolver gives a container and a key, both return a boolean.
C8_IsdirIffSlashEndedPrefix ==
    \A t \in Threads :
       LET f == th[t]
           parts == _parse_s3_uri(f.uri)
           key == parts[2]
           slashEnded == IF key # <<>> /\ key[Len(key)] = "/" THEN key ELSE key \o <<"/">>
       IN  RemoteProbeDone(f) =>
              /\ Len(parts) = 2 => f.result \in {Ok(TRUE), Ok(FALSE)}
              /\ f.op = "isfile" =>
                    (f.result = Ok(TRUE) <=> (Len(parts) = 2 /\ KeyInStore(parts[1], key)))
              /\ f.op = "isdir" =>
                    (f.result = Ok(TRUE)
                       <=> (Len(parts) = 2 /\ PrefixInStore(parts[1], slashEnded)))

\* isdir("s3://b/a") has returned False against a store whose one key is ab/x
C8_Witness ==
    /\ th[1].pc = "done"
    /\ th[1].op = "isdir"
    /\ th[1].arg = S3_PREFIX \o <<"b", "/", "a">>
    /\ store = << <<"a", "b", "/", "x">> >>
    /\ th[1].result = Ok(FALSE)

-----------------------------------------------------------------------------
(* Remote glob *)

\* A remote glob whose uri the resolver splits in two has returned to its
\* caller; the factory did not fail
RemoteGlobDone(f) ==
    /\ f.pc = "done"
    /\ f.op = "glob"
    /\ _is_s3_uri(f.uri)
    /\ Len(_parse_s3_uri(f.uri)) = 2
    /\ f.result # Raise("FactoryError")

\* The wildcards as the claim reads them: * is a run of characters other than
\* "/", which may be empty, ? is one character other than "/", and every other
\* character is itself
RECURSIVE WildMatch(_, _)
WildMatch(p, k) ==
    IF p = <<>> THEN k = <<>>
    ELSE IF p[1] = "*"
         THEN \/ WildMatch(Tail(p), k)
              \/ k # <<>> /\ k[1] # "/" /\ WildMatch(p, Tail(k))
    ELSE IF p[1] = "?" THEN k # <<>> /\ k[1] # "/" /\ WildMatch(Tail(p), Tail(k))
    ELSE k # <<>> /\ k[1] = p[1] /\ WildMatch(Tail(p), Tail(k))

\* The number of "/" in s
SlashCount(s) == Cardinality({n \in DOMAIN s : s[n] = "/"})

\* C9: for a remote pattern of literals, * and ?, glob returns the keys of the
\* store that the pattern matches when * and ? never stand for a "/", and
\* each returned key has as many "/" as the pattern.
C9_WildcardsStayInsideSegment ==
    \A t \in Threads :
       LET f == th[t]
           parts == _parse_s3_uri(f.uri)
           kept == SelectSeq(store, LAMBDA k : WildMatch(parts[2], k))
       IN  (RemoteGlobDone(f) /\ f.result # Raise("CollaboratorError")
            /\ \A n \in DOMAIN parts[2] : parts[2][n] # "[")
              => /\ f.result = Ok([n \in 1..Len(kept) |-> S3_PREFIX \o parts[1] \o <<"/">> \o kept[n]])
                 /\ \A n \in 1..Len(kept) : SlashCount(kept[n]) = SlashCount(parts[2])

\* glob("s3://b/a/*") has returned a/b alone from a store that holds a/b/a too
C9_Witness ==
    /\ th[1].pc = "done"
    /\ th[1].op = "glob"
    /\ th[1].arg = S3_PREFIX \o <<"b", "/", "a", "/", "*">>
    /\ \E n \in DOMAIN store : store[n] = <<"a", "/", "b", "/", "a">>
    /\ th[1].result = Ok(<< S3_PREFIX \o <<"b", "/", "a", "/", "b">> >>)

\* The part of a key before its first *, ? or [
RECURSIVE LiteralPrefix(_)
LiteralPrefix(k) ==
    IF k = <<>> \/ k[1] \in {"*", "?", "["} THEN <<>>
    ELSE <<k[1]>> \o LiteralPrefix(Tail(k))

\* The translation of the pattern, without its anchor, matches the whole of k
\* and not a part of it
FullMatch(pattern, k) ==
    Len(k) \in MatchEnds(re_compile(TranslateFrom(pattern, 0, <<>>)).items, 1, k, {0})

\* C10: remote glob makes one listing call, with the bucket and the part of the
\* key before its first wildcard character, and when it returns, it returns in
\* listing order the listed keys that the translated pattern matches in full,
\* each as "s3://" + bucket + "/" + key.
C10_GlobListsPrefixThenFilters ==
    \A t \in Threads :
       LET f == th[t]
           parts == _parse_s3_uri(f.uri)
           bucket == parts[1]
           key == parts[2]
           prefix == LiteralPrefix(key)
           listed == IF bucket = BUCKET
                     THEN SelectSeq(store, LAMBDA k : Len(k) >= Len(prefix)
                                                      /\ SubSeq(k, 1, Len(prefix)) = prefix)
                     ELSE <<>>
           kept == SelectSeq(listed, LAMBDA k : FullMatch(key, k))
       IN  RemoteGlobDone(f) =>
              /\ Len(f.calls) = 1
              /\ f.calls[1].method = "iterate_keys"
              /\ f.calls[1].bucket = bucket
              /\ f.calls[1].key = prefix
              /\ f.result.kind = "ok" =>
                    f.result.val = [n \in 1..Len(kept) |-> S3_PREFIX \o bucket \o <<"/">> \o kept[n]]

\* glob("s3://b/a") has listed the four keys that start with a and returned
\* the key a alone
C10_Witness ==
    /\ th[1].pc = "done"
    /\ th[1].op = "glob"
    /\ th[1].arg = S3_PREFIX \o <<"b", "/", "a">>
    /\ Len(SelectSeq(store, LAMBDA k : k # <<>> /\ k[1] = "a")) = 4
    /\ Len(th[1].calls) = 1
    /\ th[1].result = Ok(<< S3_PREFIX \o <<"b", "/", "a">> >>)

\* C11: on a store that holds one key per file of a directory tree, and for a
\* pattern whose components are all non-empty, remote glob returns the keys of
\* the files that filesystem glob returns for the pattern on that tree.
C11_RemoteGlobIsFilesystemGlob ==
    \A t \in Threads :
       LET f == th[t]
           parts == _parse_s3_uri(f.uri)
           pc == Components(parts[2])
           files == GlobOnTree(store, parts[2])
       IN  (RemoteGlobDone(f) /\ f.result.kind = "ok" /\ files.kind = "ok"
            /\ \A n \in DOMAIN pc : pc[n] # <<>>)
              => Range(f.result.val) = {S3_PREFIX \o parts[1] \o <<"/">> \o p : p \in Range(files.val)}

-----------------------------------------------------------------------------
(* abspath *)

\* s holds a "$", the start of every environment reference
HasDollar(s) == \E n \in DOMAIN s : s[n] = "$"

-----------------------------------------------------------------------------
(* Environment references *)

\* arg is "$VAR/rest" for a variable of the environment
IsVarRest(arg) == \E name \in DOMAIN Environ : StartsWith(arg, <<"$">> \o name \o <<"/">>)

VarOf(arg) == CHOOSE name \in DOMAIN Environ : StartsWith(arg, <<"$">> \o name \o <<"/">>)

\* "$VAR/rest" with the value of VAR written in the place of "$VAR"
Substituted(arg) == Environ[VarOf(arg)] \o Drop(arg, 1 + Len(VarOf(arg)))

\* A call on "$VAR/rest" has returned to its caller and neither the factory
\* nor the collaborator failed
VarRestDone(f) ==
    /\ f.pc = "done"
    /\ IsVarRest(f.arg)
    /\ f.result \notin {Raise("FactoryError"), Raise("CollaboratorError")}

\* C13 as written: for every operation and every value of VAR, the call on
\* "$VAR/rest" has the result and the collaborator calls of the call on the
\* string with the value substituted.
C13_VarSameAsSubstituted ==
    \A t \in Threads :
       LET f == th[t]
       IN  VarRestDone(f) =>
              /\ f.result = FacadeValue(f.op, Substituted(f.arg), f.mode, f.encoding)
              /\ CallsMade(f) = FacadeCalls(f.op, Substituted(f.arg), f.mode)

\* C13, amended: for every operation and every value of VAR that holds no "$",
\* the call on "$VAR/rest" has the result and the collaborator calls of the
\* call on the string with the value substituted.
C13_VarSameAsSubstitutedPlainValue ==
    \A t \in Threads :
       LET f == th[t]
       IN  (VarRestDone(f) /\ ~HasDollar(Environ[VarOf(f.arg)])) =>
              /\ f.result = FacadeValue(f.op, Substituted(f.arg), f.mode, f.encoding)
              /\ CallsMade(f) = FacadeCalls(f.op, Substituted(f.arg), f.mode)

\* isfile("$V/a") has asked the collaborator about the key d/a and returned
\* True, as isfile("s3://b/d/a") does
C13_Witness ==
    /\ th[1].pc = "done"
    /\ th[1].op = "isfile"
    /\ th[1].arg = <<"$", "V", "/", "a">>
    /\ Len(th[1].calls) = 1
    /\ th[1].calls[1].key = <<"d", "/", "a">>
    /\ th[1].result = Ok(TRUE)

-----------------------------------------------------------------------------
(* The resolver *)

\* C14: the container and the key that the resolver hands to the collaborator
\* are, joined by "/", the uri without its leading "s3://", character for
\* character.
C14_ResolverKeepsRemainder ==
    \A t \in Threads :
       LET f == th[t]
       IN  (f.pc = "done" /\ f.op \in {"open", "isfile"} /\ _is_s3_uri(f.uri) /\ Len(f.calls) = 1)
              => f.calls[1].bucket \o <<"/">> \o f.calls[1].key
                    = SubSeq(f.uri, Len(S3_PREFIX) + 1, Len(f.uri))

\* C15: isfile, isdir and exists return a boolean for every uri, unless the
\* collaborator (or the construction of the client) raises.
C15_ProbesReturnBoolean ==
    \A t \in Threads :
       LET f == th[t]
       IN  (f.pc = "done" /\ f.op \in {"isfile", "isdir", "exists"}
            /\ f.result \notin {Raise("FactoryError"), Raise("CollaboratorError")})
              => f.result \in {Ok(TRUE), Ok(FALSE)}

-----------------------------------------------------------------------------
(* Errors of the collaborator *)

\* C16: in one operation no collaborator method is called twice, and a
\* collaborator call ends the operation, whether it returns or raises; the
\* one call that is followed by another is the isdir of exists when no key has
\* its prefix, which is followed by the isfile of exists.
C16_NoRetryNoSwallow ==
    [][\A t \in Threads :
          LET f == th[t]
              g == th'[t]
              last == g.calls[Len(g.calls)]
          IN  (f.pc = "use" /\ g # f) =>
                 /\ g.calls = f.calls \/ g.calls = Append(f.calls, last)
                 /\ g.calls # f.calls =>
                       /\ \A n \in 1..Len(f.calls) : f.calls[n].method # last.method
                       /\ \/ g.pc = "done"
                          \/ /\ f.op = "exists"
                             /\ last.method = "prefix_exists"
                             /\ ~PrefixInStore(last.bucket, last.key)
                             /\ g.sub = "isfile"]_vars

\* exists("s3://b/a") has ended with the error that its first collaborator
\* call raised, against a store in which the prefix a/ exists
C16_Witness ==
    /\ th[1].pc = "done"
    /\ th[1].op = "exists"
    /\ th[1].arg = S3_PREFIX \o <<"b", "/", "a">>
    /\ store = << <<"a", "/", "x">> >>
    /\ Len(th[1].calls) = 1
    /\ th[1].result = Raise("CollaboratorError")

-----------------------------------------------------------------------------
(* Text and binary reads *)

\* C17: for a remote object and for a local file, what a text-read open reads
\* is what the binary-read open reads, decoded with the given encoding, or
\* with the system default when none is given.
C17_TextIsDecodedBinary ==
    \A t \in Threads :
       LET f == th[t]
           binary == FacadeValue("open", f.arg, "rb", "None")
       IN  (f.pc = "done" /\ f.op = "open" /\ f.mode = "r" /\ f.result.kind = "ok"
            /\ binary.kind = "ok")
              => ReadAll(f.result.val)
                    = Decode(ReadAll(binary.val).val,
                             IF f.encoding = "None" THEN _SYSTEM_ENCODING ELSE f.encoding)

-----------------------------------------------------------------------------
(* Classification *)

\* The text starts with the five characters s 3 : / /
StartsWithScheme(u) ==
    Len(u) >= 5 /\ u[1] = "s" /\ u[2] = "3" /\ u[3] = ":" /\ u[4] = "/" /\ u[5] = "/"

\* C18: a function that has passed open's mode check takes its local branch,
\* which makes one filesystem call and returns, exactly when the expansion of
\* its argument does not start with "s3://"; otherwise it takes its remote
\* branch and makes no filesystem call.
C18_ClassifiedByExpandedPrefix ==
    [][\A t \in Threads :
          LET f == th[t]
              g == th'[t]
          IN  (f.pc = "enter" /\ g # f /\ ~(f.sub = "open" /\ f.mode \notin {"r", "rb"})) =>
                 /\ (g.fs = f.fs + 1 /\ g.pc = "done" /\ g.calls = f.calls)
                       <=> ~StartsWithScheme(expandvars(f.uri))
                 /\ StartsWithScheme(expandvars(f.uri)) =>
                       /\ g.fs = f.fs
                       /\ \/ g.pc = "ensure"
                          \/ f.sub = "abspath" /\ g.pc = "done"
                          \/ f.sub = "exists" /\ g.sub = "isdir" /\ g.pc = "enter"]_vars

\* isfile("S3://b/a") has asked the filesystem and no collaborator
C18_Witness ==
    /\ th[1].pc = "done"
    /\ th[1].op = "isfile"
    /\ th[1].arg = <<"S", "3", ":", "/", "/", "b", "/", "a">>
    /\ th[1].fs = 1
    /\ th[1].calls = <<>>
    /\ th[1].result = Ok(FALSE)

-----------------------------------------------------------------------------
(* The glob translator on brackets *)

\* No "]" closes a bracket that opens before q: after a "!" at the start and
\* a "]" right after it, which do not close, q holds no "]"
NoClosingBracket(q) ==
    LET q1 == IF q # <<>> /\ q[1] = "!" THEN Tail(q) ELSE q
        q2 == IF q1 # <<>> /\ q1[1] = "]" THEN Tail(q1) ELSE q1
    IN  \A n \in DOMAIN q2 : q2[n] # "]"

\* C19: the translator gives an expression for every key, (?s: and )\Z around
\* the translation of the key; and where the first "[" of the key has no
\* closing "]", the translation is that of the text before it, an escaped
\* "[", and the translation of the text after it.
C19_TranslatorTotal ==
    \A t \in Threads :
       LET f == th[t]
           key == _parse_s3_uri(f.uri)[2]
           re == _glob_to_re(key)
           i == CHOOSE n \in DOMAIN key : key[n] = "[" /\ \A m \in 1..(n - 1) : key[m] # "["
           pre == SubSeq(key, 1, i - 1)
           q == SubSeq(key, i + 1, Len(key))
       IN  RemoteGlobDone(f) =>
              /\ Len(re) >= 7
              /\ SubSeq(re, 1, 4) = <<"(", "?", "s", ":">>
              /\ SubSeq(re, Len(re) - 2, Len(re)) = <<")", "\\", "Z">>
              /\ SubSeq(re, 5, Len(re) - 3) = TranslateFrom(key, 0, <<>>)
              /\ ((\E n \in DOMAIN key : key[n] = "[") /\ NoClosingBracket(q)) =>
                    TranslateFrom(key, 0, <<>>)
                       = TranslateFrom(pre, 0, <<>>) \o <<"\\", "[">> \o TranslateFrom(q, 0, <<>>)

\* glob("s3://b/[!]"), whose bracket is not closed, has returned the key [!]
C19_Witness ==
    /\ th[1].pc = "done"
    /\ th[1].op = "glob"
    /\ th[1].arg = S3_PREFIX \o <<"b", "/", "[", "!", "]">>
    /\ th[1].result = Ok(<< S3_PREFIX \o <<"b", "/", "[", "!", "]">> >>)

\* C20: the expression the translator gives compiles for every key, so
\* remote glob returns unless the listing call (or the construction of the
\* client) raises.
C20_TranslationCompiles ==
    \A t \in Threads :
       LET f == th[t]
       IN  (RemoteGlobDone(f) /\ f.result # Raise("CollaboratorError"))
              => /\ re_compile(_glob_to_re(_parse_s3_uri(f.uri)[2])).ok
                 /\ f.result.kind = "ok"

-----------------------------------------------------------------------------
(* One expansion per call *)

\* The facade function whose remote branch calls the collaborator method
SubOfMethod(method) ==
    CASE method = "get_object" -> "open"
      [] method = "object_exists" -> "isfile"
      [] method = "prefix_exists" -> "isdir"
      [] method = "iterate_keys" -> "glob"

\* C21: the bucket and key of every collaborator call of a facade call, and the
\* path of its filesystem call, come from one expansion of the caller's
\* argument, for exists on a remote uri and for a variable whose value holds
\* a reference as well.
C21_SingleExpansionPass ==
    \A t \in Threads :
       LET f == th[t]
           u == expandvars(f.arg)
           parts == _parse_s3_uri(u)
       IN  f.pc = "done" =>
              /\ \A n \in DOMAIN f.calls :
                    /\ Len(parts) = 2
                    /\ f.calls[n].bucket = parts[1]
                    /\ f.calls[n].key = RemoteKeyArg(SubOfMethod(f.calls[n].method), parts[2])
              /\ f.fs > 0 => f.result = LocalResult(f.op, u, f.mode, f.encoding)

-----------------------------------------------------------------------------
(* Local uris and the client *)

\* C22: no step of a facade function or of a read helper on a local uri (one
\* whose expansion does not start with s3://) constructs the client, assigns
\* the global, registers an exit callback or calls the collaborator; the
\* global, None at the start, is therefore None after any run of such calls.
C22_LocalNeverTouchesClient ==
    [][\A t \in Threads :
          (th[t].pc # "idle" /\ ~_is_s3_uri(expandvars(th[t].arg)) /\ th'[t] # th[t])
             => /\ UNCHANGED <<S3_CLIENT, constructed, factoryCalls, atexit, used>>
                /\ th'[t].calls = <<>>
                /\ th'[t].pc \notin {"ensure", "factory", "assign", "register", "use"}]_vars

\* read_yaml("a"), the second of two calls, has decoded the local file and
\* the global is None
C22_Witness ==
    /\ th[1].n = 2
    /\ th[1].pc = "done"
    /\ th[1].op = "read_yaml"
    /\ th[1].arg = <<"a">>
    /\ th[1].fs = 1
    /\ th[1].decoded = 1
    /\ S3_CLIENT = 0
    /\ factoryCalls = 0
    /\ atexit = <<>>

-----------------------------------------------------------------------------
(* The client is there before it is called *)

\* C23: a collaborator call is made by a function that is past its
\* _ensure_s3_client(), which is entered from the test of the global or from
\* the registration and leaves a handle in the global; the global, once it
\* holds a handle, holds one from then on, so no call finds it None.  exists
\* makes its calls inside isdir and isfile, each past its own ensure.
C23_CollaboratorAfterEnsure ==
    [][\A t \in Threads :
          /\ (th'[t].calls # th[t].calls /\ th'[t].calls # <<>>)
                => /\ th[t].pc = "use"
                   /\ S3_CLIENT # 0
                   /\ th'[t].calls[Len(th'[t].calls)].h = S3_CLIENT
                   /\ Len(th'[t].calls) = Len(th[t].calls) + 1
          /\ (th'[t].pc = "use" /\ th[t].pc # "use")
                => /\ th[t].pc \in {"ensure", "register"}
                   /\ S3_CLIENT' # 0
          /\ S3_CLIENT # 0 => S3_CLIENT' # 0]_vars

\* exists("s3://b/a") has asked isdir and then isfile, each on a handle
C23_Witness ==
    /\ th[1].pc = "done"
    /\ th[1].op = "exists"
    /\ Len(th[1].calls) = 2
    /\ th[1].calls[1].method = "prefix_exists"
    /\ th[1].calls[2].method = "object_exists"
    /\ th[1].calls[1].h # 0
    /\ th[1].calls[2].h # 0

-----------------------------------------------------------------------------
(* The read helpers *)

\* A call of a read helper has returned to its caller
HelperDone(f) == f.pc = "done" /\ f.op \in Helpers

\* C24: when the open of a read helper raises, the helper raises the same
\* error and its decoder has not been called; when its decoder raises, the
\* helper raises the decoder's error.
C24_HelperFailuresPropagate ==
    \A t \in Threads :
       LET f == th[t]
           opened == FacadeValue("open", f.arg, f.mode, "None")
       IN  HelperDone(f) =>
              /\ f.file = NoResult =>
                    /\ f.result.kind = "raise"
                    /\ f.result \in {Raise("FactoryError"), Raise("CollaboratorError"), opened}
                    /\ f.decoded = 0
              /\ opened.kind = "raise" => (f.file = NoResult /\ f.decoded = 0)
              /\ f.decoded > 0 => f.file = opened.val
              /\ f.dec.kind = "raise" => f.result = f.dec

\* read_hdf5("s3://b/a") has raised the error of its decoder
C24_Witness ==
    /\ th[1].pc = "done"
    /\ th[1].op = "read_hdf5"
    /\ th[1].arg = <<"s", "3", ":", "/", "/", "b", "/", "a">>
    /\ Len(th[1].calls) = 1
    /\ th[1].decoded = 1
    /\ th[1].dec = Raise("DecoderError")
    /\ th[1].result = Raise("DecoderError")

\* C25: read_hdf5 with a mode other than a read mode raises ValueError, and
\* has then opened no file, made no collaborator call and not called its
\* decoder.
C25_Hdf5WriteModeRaisesFirst ==
    \A t \in Threads :
       LET f == th[t]
       IN  (HelperDone(f) /\ f.op = "read_hdf5" /\ f.hmode \notin _OPEN_MODES)
              => /\ f.result = Raise("ValueError")
                 /\ f.fs = 0
                 /\ f.calls = <<>>
                 /\ f.file = NoResult
                 /\ f.decoded = 0

\* C26: when the decoder of a read helper has raised, the stream that the
\* helper opened is closed when the helper's caller has the error.
C26_StreamClosedAfterFailedDecode ==
    \A t \in Threads :
       LET f == th[t]
       IN  (HelperDone(f) /\ f.dec.kind = "raise") => f.stream = "closed"

-----------------------------------------------------------------------------
(* Remote glob: the listing prefix *)

\* C27: remote glob returns what the filter gives on the listing of the whole
\* bucket, for every pattern and every store: every key that the translated
\* pattern matches starts with the part of the pattern before its first
\* wildcard character, so the listing by that prefix leaves no match out.
C27_PrefixLosesNoMatch ==
    \A t \in Threads :
       LET f == th[t]
           parts == _parse_s3_uri(f.uri)
           bucket == parts[1]
           key == parts[2]
           compiled == re_compile(_glob_to_re(key))
       IN  (RemoteGlobDone(f) /\ f.result # Raise("CollaboratorError")) =>
              /\ f.result = GlobFilter(bucket, key, iterate_keys(bucket, <<>>))
              /\ compiled.ok =>
                    \A n \in DOMAIN store :
                       re_match(compiled, store[n]) => StartsWith(store[n], LiteralPrefix(key))

\* glob("s3://b/a*") has returned a and ab, two of the four keys that start
\* with a, from a bucket that holds keys that do not start with a
C27_Witness ==
    /\ th[1].pc = "done"
    /\ th[1].op = "glob"
    /\ th[1].arg = S3_PREFIX \o <<"b", "/", "a", "*">>
    /\ Len(th[1].calls) = 1
    /\ th[1].calls[1].key = <<"a">>
    /\ Len(iterate_keys(BUCKET, <<"a">>)) = 4
    /\ Len(store) = 7
    /\ th[1].result = Ok(<< S3_PREFIX \o <<"b", "/", "a">>, S3_PREFIX \o <<"b", "/", "a", "b">> >>)

\* The bucket and the key of a remote uri as the specification splits it: the
\* text after s3:// up to its first "/", and the text after that "/"
RefBucket(u) ==
    LET rest == Drop(u, Len(S3_PREFIX))
        p == Find(rest, "/", 1)
    IN  IF p = 0 THEN rest ELSE SubSeq(rest, 1, p - 1)

RefKey(u) ==
    LET rest == Drop(u, Len(S3_PREFIX))
        p == Find(rest, "/", 1)
    IN  IF p = 0 THEN <<>> ELSE Drop(rest, p)

\* C28: for a remote uri whose key holds no *, ? or [, glob(uri) returns the
\* list of the uri alone when the store holds that key and the empty list when
\* it does not, a key that only starts with the pattern is not returned, and
\* the list is non-empty exactly when isfile(uri) is true.
C28_LiteralGlobIsExactKey ==
    \A t \in Threads :
       LET f == th[t]
           u == expandvars(f.arg)
           there == RefBucket(u) = BUCKET /\ RefKey(u) \in Range(store)
       IN  (f.pc = "done" /\ f.op = "glob" /\ _is_s3_uri(u) /\ ~has_magic(RefKey(u))
            /\ f.result \notin {Raise("FactoryError"), Raise("CollaboratorError")})
              => /\ f.result = Ok(IF there THEN <<u>> ELSE <<>>)
                 /\ FacadeValue("isfile", f.arg, "r", "None") = Ok(f.result.val # <<>>)

-----------------------------------------------------------------------------
(* A handle that is in the global before the first call *)

\* C29: when the global holds a handle that a test put there, it holds that
\* handle from then on: the factory is not called, nothing is registered with
\* atexit, so no close of the handle is run, and every collaborator call goes
\* to that handle.
C29_PlacedHandleUsedAsIs ==
    [][S3_CLIENT = MockHandle =>
          /\ S3_CLIENT' = MockHandle
          /\ constructed' = 0
          /\ factoryCalls' = 0
          /\ atexit' = <<>>
          /\ used' \subseteq {MockHandle}
          /\ \A t \in Threads :
                /\ th'[t].pc \notin {"factory", "assign", "register"}
                /\ \A n \in DOMAIN th'[t].calls : th'[t].calls[n].h = MockHandle]_vars

\* The process has exited after remote calls on the test's handle, which is
\* still in the global
C29_Witness ==
    /\ S3_CLIENT = MockHandle
    /\ phase = "exited"
    /\ used = {MockHandle}
    /\ th[1].n = 2
    /\ constructed = 0
    /\ atexit = <<>>

-----------------------------------------------------------------------------
(* Calls after the close *)

\* C30: once the close of the handle in the global has run, no step constructs
\* a client or changes the global, and no step makes a collaborator call.
C30_ClosedHandleNotUsed ==
    [][(S3_CLIENT > 0 /\ closed[S3_CLIENT] > 0) =>
          /\ S3_CLIENT' = S3_CLIENT
          /\ constructed' = constructed
          /\ factoryCalls' = factoryCalls
          /\ \A t \in Threads : Len(th'[t].calls) <= Len(th[t].calls)]_vars

====
